---- MODULE Spec2Model ----
(***************************************************************************)
(* A model of the solar-system scene of src/unnamed/part_000 (and of its   *)
(* earlier revision src/script.js): the asynchronous construction of the  *)
(* planets, the per-frame update animate(), the solar flares, the asteroid *)
(* belt and the settings handlers.                                         *)
(*                                                                         *)
(* JavaScript numbers are modelled as exact rationals <<n, d>> in lowest   *)
(* terms (d > 0), so that structural equality is numeric equality.         *)
(* Rendering state (materials, colours, label transforms, cameras) is left *)
(* out; a texture load resolves to a drawable input whose kind (texture or *)
(* fallback colour) no modelled operation reads.                           *)
(*                                                                         *)
(* Descriptors holds the eight createPlanet calls; Spec runs the calls up  *)
(* to planets[2], the body animate() looks up by index (Mercury, Venus and *)
(* Earth with its default moon and its clouds). The later calls run the    *)
(* same code on other arguments.                                           *)
(***************************************************************************)
EXTENDS Integers, Sequences, FiniteSets, TLC

(* ------------------------------ bounds -------------------------------- *)
\* frames and settings events explored after init() has resolved
MaxSteps == 2

(* ----------------------------- rationals ------------------------------ *)
RECURSIVE GCD(_, _)
GCD(a, b) == IF b = 0 THEN a ELSE GCD(b, a % b)

Abs(a) == IF a < 0 THEN -a ELSE a

\* n / d in lowest terms with a positive denominator
R(n, d) ==
    LET s == IF d < 0 THEN -1 ELSE 1
        g == GCD(Abs(n), Abs(d))
    IN  <<(s * n) \div g, (s * d) \div g>>

Num(n) == <<n, 1>>
RAdd(a, b) == R(a[1] * b[2] + b[1] * a[2], a[2] * b[2])
RSub(a, b) == R(a[1] * b[2] - b[1] * a[2], a[2] * b[2])
RMul(a, b) == R(a[1] * b[1], a[2] * b[2])
RDiv(a, b) == R(a[1] * b[2], a[2] * b[1])
RLt(a, b) == a[1] * b[2] < b[1] * a[2]
RLe(a, b) == a[1] * b[2] <= b[1] * a[2]
Zero == Num(0)
One == Num(1)

(* --------------------------- Math.cos / sin --------------------------- *)
\* pi in hundredths of a radian
PiC == 314

\* the angle in hundredths of a radian, reduced to one turn
Centi(a) == ((a[1] * 100) \div a[2]) % (2 * PiC)

\* Bhaskara's rational approximation of the sine on [0, pi]
SinHalf(c) == R(16 * c * (PiC - c), 5 * PiC * PiC - 4 * c * (PiC - c))

SinC(c) == IF c < PiC THEN SinHalf(c) ELSE RSub(Zero, SinHalf(c - PiC))

MathSin(a) == SinC(Centi(a))
MathCos(a) == SinC((Centi(a) + PiC \div 2) % (2 * PiC))

\* Math.PI * 2
TwoPi == R(2 * PiC, 100)

(* ---------------------------- Math.random ----------------------------- *)
\* Math.random() is a pseudo-random generator: successive calls return the
\* successive values of a sequence fixed by its seed. The model's generator
\* runs round a cycle of the values 0 and 3/4 in which every run of three
\* draws occurs, from a position chosen freely at start. Calls whose value the
\* model does not keep (star and asteroid positions, flare curves and phase
\* offsets) are not counted.
Hi == R(3, 4)
Stream == <<Zero, Zero, Zero, Hi, Zero, Hi, Hi, Hi>>
Seeds == 1 .. Len(Stream)

\* the generator's position after n calls from position g
Advance(g, n) == ((g - 1 + n) % Len(Stream)) + 1

\* the value of call number n (from 1) at position g
MathRandom(g, n) == Stream[Advance(g, n - 1)]

(* ------------------------- program constants -------------------------- *)
MAX_ROTATION_SPEED == 100
\* planet.angle += 0.005 * rotationSpeed * delta
OrbitRate == R(5, 1000)
\* rotationSpeed: 0.02 / size
SpinK == R(2, 100)
StarRate == R(1, 10000)
BeltRate == R(5, 10000)
flareCount == 3
BaseOpacity == R(7, 10)

(* ---------------------------- descriptors ----------------------------- *)
Moon(size, orbitRadius) == [size |-> size, orbitRadius |-> orbitRadius]

Desc(size, orbitRadius, hasMoon, hasRings, hasClouds, isEarth, moons, name) ==
    [size |-> size, orbitRadius |-> orbitRadius, hasMoon |-> hasMoon,
     hasRings |-> hasRings, hasClouds |-> hasClouds, isEarth |-> isEarth,
     moons |-> moons, name |-> name]

\* the argument lists of the createPlanet calls, in array order
Descriptors ==
    << Desc(R(8, 10), Num(10), FALSE, FALSE, FALSE, FALSE, <<>>, "Mercury"),
       Desc(R(15, 10), Num(15), FALSE, FALSE, FALSE, FALSE, <<>>, "Venus"),
       Desc(R(16, 10), Num(20), TRUE, FALSE, TRUE, TRUE, <<>>, "Earth"),
       Desc(R(12, 10), Num(25), FALSE, FALSE, FALSE, FALSE,
            <<Moon(R(1, 10), Num(2)), Moon(R(8, 100), R(25, 10))>>, "Mars"),
       Desc(R(35, 10), Num(45), FALSE, FALSE, FALSE, FALSE,
            <<Moon(R(28, 100), Num(5)), Moon(R(24, 100), Num(6)),
              Moon(R(41, 100), Num(7)), Moon(R(38, 100), Num(8))>>, "Jupiter"),
       Desc(Num(3), Num(60), FALSE, TRUE, FALSE, FALSE,
            <<Moon(R(4, 10), Num(6))>>, "Saturn"),
       Desc(R(25, 10), Num(75), FALSE, FALSE, FALSE, FALSE,
            <<Moon(R(2, 10), Num(4))>>, "Uranus"),
       Desc(R(23, 10), Num(90), FALSE, FALSE, FALSE, FALSE,
            <<Moon(R(21, 100), Num(5))>>, "Neptune") >>

\* planets[2], the body whose sun direction animate publishes
EarthIndex == 3

\* planetNames of createPlanetLabels: one label per name
planetNames ==
    <<"Mercury", "Venus", "Earth", "Mars", "Jupiter", "Saturn", "Uranus", "Neptune">>

(* ------------------------------- state -------------------------------- *)
VARIABLES
    pc,                 \* where init() stands
    rotationSpeed, planetSizeScale, asteroidCount, solarFlareInterval,
    scene,              \* scene.children, in insertion order
    starField,          \* starField.rotation.y
    asteroidBelt,       \* the group the global asteroidBelt refers to
    solarFlares,        \* solarFlares.children
    builders,           \* the pending createPlanet calls
    planets,            \* the global planets (<<>> while undefined)
    selectedPlanet,
    clockRunning,       \* THREE.Clock.running
    nextObject,         \* number of objects allocated so far (object identity)
    rng,                \* the position of the generator of Math.random()
    steps               \* frames and settings events since init() resolved

\* the createPlanet calls in flight
Bodies == DOMAIN builders

vars == <<pc, rotationSpeed, planetSizeScale, asteroidCount, solarFlareInterval,
          scene, starField, asteroidBelt, solarFlares, builders, planets,
          selectedPlanet, clockRunning, nextObject, rng, steps>>

None == [kind |-> "none"]

Node(kind, id) == [kind |-> kind, id |-> id]

(* -------------------------- createAsteroidBelt ------------------------ *)
\* NewBelt taking over the rotation of the group it replaces
NewBeltCarryingSpin(first, count) ==
    [kind |-> "group", id |-> first, first |-> first + 1, count |-> count,
     rotY |-> IF asteroidBelt.kind = "group" THEN asteroidBelt.rotY ELSE Zero]

\* a new group holding `count` new meshes, numbered from `first`
NewBelt(first, count) ==
    [kind |-> "group", id |-> first, first |-> first + 1, count |-> count,
     rotY |-> Zero]

\* the meshes of a belt
Asteroids(belt) == belt.first .. (belt.first + belt.count - 1)

(* -------------------------- createSolarFlares ------------------------- *)
\* maxLifespan: Math.random() * 5 + 5
MaxLifespanOf(u) == RAdd(RMul(u, Num(5)), Num(5))

NewFlare(id, u) ==
    [id |-> id, lifespan |-> Zero, maxLifespan |-> MaxLifespanOf(u),
     opacity |-> BaseOpacity]

\* the children of a new flare group, with the generator at position g
createSolarFlares(first, g) ==
    [i \in 1 .. flareCount |-> NewFlare(first + i - 1, MathRandom(g, i))]

(* ----------------------------- createPlanet --------------------------- *)
\* MoonsOf with the default moon added whenever hasMoon is set, also to a
\* list that has moons
MoonsOfFlagAdds(d) ==
    (IF d.hasMoon
     THEN <<Moon(RMul(d.size, R(2, 10)), RMul(d.size, Num(2)))>>
     ELSE <<>>) \o d.moons

\* the moons createPlanet iterates over
MoonsOf(d) ==
    IF d.hasMoon \/ Len(d.moons) > 0
    THEN IF Len(d.moons) = 0
         THEN <<Moon(RMul(d.size, R(2, 10)), RMul(d.size, Num(2)))>>
         ELSE d.moons
    ELSE <<>>

\* the texture loads createPlanet awaits, in order
Awaits(d) ==
    (IF d.isEarth THEN <<>> ELSE <<"texture">>)
    \o [j \in 1 .. Len(MoonsOf(d)) |-> "moon"]
    \o (IF d.hasRings THEN <<"rings">> ELSE <<>>)
    \o (IF d.hasClouds THEN <<"clouds">> ELSE <<>>)

\* MoonSpin growing with the size instead of falling with it
MoonSpinProportional(size) == RMul(SpinK, size)

MoonSpin(size) == RDiv(SpinK, size)

\* the record pushed on moonObjects
MoonObject(moon, u) ==
    [orbitRadius |-> moon.orbitRadius,
     angle |-> RMul(u, TwoPi),
     rotationSpeed |-> MoonSpin(moon.size),
     radius |-> moon.size,
     x |-> Zero, z |-> Zero, rotY |-> Zero]

PlanetSpin(size) == RDiv(SpinK, size)

\* the object createPlanet returns
PlanetObject(d, moonObjects, u) ==
    [name |-> d.name,
     orbitRadius |-> d.orbitRadius,
     angle |-> RMul(u, TwoPi),
     rotationSpeed |-> PlanetSpin(d.size),
     moons |-> moonObjects,
     radius |-> d.size,                  \* mesh.geometry.parameters.radius
     rotY |-> Zero,                      \* mesh.rotation.y
     x |-> d.orbitRadius, z |-> Zero,    \* group.position
     quatY |-> Zero,                     \* group.quaternion: a turn about y
     scale |-> One,                      \* group.scale
     uniforms |-> d.isEarth,             \* mesh.material.uniforms exists
     sunDirection |-> <<One, Zero, Zero>>,
     clouds |-> d.hasClouds, cloudsRotY |-> Zero]

NewBuilder == [resolved |-> 0, moons |-> <<>>, done |-> FALSE, result |-> None]

(* -------------------------------- Init -------------------------------- *)
Init ==
    /\ pc = "earthDay"
    /\ rotationSpeed = One
    /\ planetSizeScale = One
    /\ asteroidCount = 1000
    /\ solarFlareInterval = 10
    /\ scene = <<>>
    /\ starField = None
    /\ asteroidBelt = None
    /\ solarFlares = <<>>
    /\ builders = [i \in 1 .. EarthIndex |-> NewBuilder]
    /\ planets = <<>>
    /\ selectedPlanet = "null"
    /\ clockRunning = FALSE
    /\ nextObject = 0
    /\ rng \in Seeds
    /\ steps = 0

(* ------------------------ init, createSolarSystem --------------------- *)
\* earthDayTexture = await loadTextureWithFallback(...)
LoadEarthDay ==
    /\ pc = "earthDay"
    /\ pc' = "earthNight"
    /\ UNCHANGED <<rotationSpeed, planetSizeScale, asteroidCount,
                   solarFlareInterval, scene, starField, asteroidBelt,
                   solarFlares, builders, planets, selectedPlanet,
                   clockRunning, nextObject, steps,
                   rng>>

\* earthNightTexture is resolved; createSolarSystem runs to the sun's load
LoadEarthNight ==
    /\ pc = "earthNight"
    /\ pc' = "sun"
    /\ starField' = [kind |-> "points", rotY |-> Zero]
    /\ asteroidBelt' = NewBelt(nextObject, asteroidCount)
    /\ nextObject' = nextObject + 1 + asteroidCount
    /\ scene' = scene \o <<Node("starField", 0), Node("asteroidBelt", nextObject)>>
    /\ UNCHANGED <<rotationSpeed, planetSizeScale, asteroidCount,
                   solarFlareInterval, solarFlares, builders, planets,
                   selectedPlanet, clockRunning, steps,
                   rng>>

\* the sun's texture is resolved: sun, flares and lights are created and every
\* createPlanet call of the array runs to its first await
LoadSun ==
    /\ pc = "sun"
    /\ solarFlares' = createSolarFlares(nextObject, rng)
    /\ rng' = Advance(rng, flareCount)
    /\ nextObject' = nextObject + flareCount
    /\ scene' = scene \o <<Node("sun", 0), Node("pointLight", 0),
                           Node("ambientLight", 0)>>
    /\ pc' = "planets"
    /\ UNCHANGED <<rotationSpeed, planetSizeScale, asteroidCount,
                   solarFlareInterval, starField, asteroidBelt, builders,
                   planets, selectedPlanet, clockRunning, steps>>

\* LoadResolved with scene.add(planetGroup) ahead of the awaits: the group is
\* in the scene once the first load of the body is resolved
LoadResolvedAddFirst(i) ==
    LET d == Descriptors[i]
        b == builders[i]
        k == b.resolved + 1
        j == IF d.isEarth THEN k ELSE k - 1
        isMoon == Awaits(d)[k] = "moon"
        moonObjects == IF isMoon
                       THEN Append(b.moons,
                                MoonObject(MoonsOf(d)[j], MathRandom(rng, 1)))
                       ELSE b.moons
        g == IF isMoon THEN Advance(rng, 1) ELSE rng
        returns == k = Len(Awaits(d))
    IN  /\ pc = "planets"
        /\ ~b.done
        /\ builders' = [builders EXCEPT ![i] =
              [resolved |-> k, moons |-> moonObjects, done |-> returns,
               result |-> IF returns
                          THEN PlanetObject(d, moonObjects, MathRandom(g, 1))
                          ELSE None]]
        /\ scene' = IF k = 1 THEN Append(scene, Node("planet", i)) ELSE scene
        /\ rng' = IF returns THEN Advance(g, 1) ELSE g
        /\ UNCHANGED <<pc, rotationSpeed, planetSizeScale, asteroidCount,
                       solarFlareInterval, starField, asteroidBelt,
                       solarFlares, planets, selectedPlanet, clockRunning,
                       nextObject, steps>>

\* the load body i awaits is resolved and createPlanet runs to its next await
\* or to its return
LoadResolved(i) ==
    LET d == Descriptors[i]
        b == builders[i]
        k == b.resolved + 1
        j == IF d.isEarth THEN k ELSE k - 1
        isMoon == Awaits(d)[k] = "moon"
        moonObjects == IF isMoon
                       THEN Append(b.moons,
                                MoonObject(MoonsOf(d)[j], MathRandom(rng, 1)))
                       ELSE b.moons
        g == IF isMoon THEN Advance(rng, 1) ELSE rng
        returns == k = Len(Awaits(d))
    IN  /\ pc = "planets"
        /\ ~b.done
        /\ builders' = [builders EXCEPT ![i] =
              [resolved |-> k, moons |-> moonObjects, done |-> returns,
               result |-> IF returns
                          THEN PlanetObject(d, moonObjects, MathRandom(g, 1))
                          ELSE None]]
        /\ scene' = IF returns THEN Append(scene, Node("planet", i)) ELSE scene
        /\ rng' = IF returns THEN Advance(g, 1) ELSE g
        /\ UNCHANGED <<pc, rotationSpeed, planetSizeScale, asteroidCount,
                       solarFlareInterval, starField, asteroidBelt,
                       solarFlares, planets, selectedPlanet, clockRunning,
                       nextObject, steps>>

\* the bodies in the order in which their createPlanet calls returned
Completed == SelectSeq(scene, LAMBDA n : n.kind = "planet")

\* Promise.all collecting the results as the promises are fulfilled
PromiseAllAsCompleted(results) ==
    [k \in 1 .. Len(results) |-> results[Completed[k].id]]

\* Promise.all: the results in the order of the array of promises
PromiseAll(results) == [i \in 1 .. Len(results) |-> results[i]]

\* every createPlanet promise is fulfilled: planets is assigned and
\* createOrbitLines adds one line per planet
PlanetsResolved ==
    /\ pc = "planets"
    /\ \A i \in Bodies : builders[i].done
    /\ planets' = PromiseAll([i \in Bodies |-> builders[i].result])
    /\ scene' = scene \o [i \in 1 .. Len(planets') |-> Node("orbitLine", i)]
    /\ pc' = "animate"
    /\ UNCHANGED <<rotationSpeed, planetSizeScale, asteroidCount,
                   solarFlareInterval, starField, asteroidBelt, solarFlares,
                   builders, selectedPlanet, clockRunning, nextObject, steps,
                   rng>>

(* --------------------------- animateSolarFlares ----------------------- *)
\* lifespan += delta; opacity = 0.7 * (1 - lifespan / maxLifespan)
AgeFlare(f, delta) ==
    LET lifespan == RAdd(f.lifespan, delta)
    IN  [f EXCEPT !.lifespan = lifespan,
                  !.opacity = RMul(BaseOpacity,
                                   RSub(One, RDiv(lifespan, f.maxLifespan)))]

\* Object3D.remove: children.splice(index, 1)
RemoveAt(seq, k) == SubSeq(seq, 1, k - 1) \o SubSeq(seq, k + 1, Len(seq))

\* ForEachFlare testing the lifespan before it is advanced, so that a flare
\* is removed in the frame after the one in which its lifespan is over
RECURSIVE ForEachFlareLate(_, _, _, _)
ForEachFlareLate(children, k, len, delta) ==
    IF k > len \/ k > Len(children)
    THEN children
    ELSE IF RLe(children[k].maxLifespan, children[k].lifespan)
         THEN ForEachFlareLate(RemoveAt(children, k), k + 1, len, delta)
         ELSE ForEachFlareLate([children EXCEPT ![k] = AgeFlare(children[k], delta)],
                               k + 1, len, delta)

\* children.forEach(callback): the indices 1 .. len of the array as it was at
\* the call are visited in order, and an index the array no longer has is
\* skipped; the callback removes the flare it visits once its lifespan is over
RECURSIVE ForEachFlare(_, _, _, _)
ForEachFlare(children, k, len, delta) ==
    IF k > len \/ k > Len(children)
    THEN children
    ELSE LET flare == AgeFlare(children[k], delta)
             aged == [children EXCEPT ![k] = flare]
         IN  IF RLe(flare.maxLifespan, flare.lifespan)
             THEN ForEachFlare(RemoveAt(aged, k), k + 1, len, delta)
             ELSE ForEachFlare(aged, k + 1, len, delta)

\* SpawnTest with <= in the place of <
SpawnTestInclusive(u, interval, delta) ==
    IF interval = 0
    THEN RLt(Zero, delta)
    ELSE RLe(u, RMul(R(1, interval), delta))

\* Math.random() < (1 / solarFlareInterval) * delta; 1 / 0 is Infinity, and
\* Infinity * 0 is NaN, which compares false
SpawnTest(u, interval, delta) ==
    IF interval = 0
    THEN RLt(Zero, delta)
    ELSE RLt(u, RMul(R(1, interval), delta))

\* animateSolarFlares spawning only while fewer than flareCount + 1 flares
\* are active
animateSolarFlaresCapped(children, delta, interval, first, g) ==
    LET kept == ForEachFlare(children, 1, Len(children), delta)
    IN  IF SpawnTest(MathRandom(g, 1), interval, delta) /\ Len(kept) < flareCount + 1
        THEN Append(kept, createSolarFlares(first, Advance(g, 1))[1])
        ELSE kept

\* animateSolarFlares adding the whole new group instead of its first child
animateSolarFlaresBatch(children, delta, interval, first, g) ==
    LET kept == ForEachFlare(children, 1, Len(children), delta)
    IN  IF SpawnTest(MathRandom(g, 1), interval, delta)
        THEN kept \o createSolarFlares(first, Advance(g, 1))
        ELSE kept

\* the children of solarFlares after animateSolarFlares(delta): one call of
\* Math.random() decides the spawn, and createSolarFlares() makes the next ones
animateSolarFlares(children, delta, interval, first, g) ==
    LET kept == ForEachFlare(children, 1, Len(children), delta)
    IN  IF SpawnTest(MathRandom(g, 1), interval, delta)
        THEN Append(kept, createSolarFlares(first, Advance(g, 1))[1])
        ELSE kept

(* -------------------------------- animate ----------------------------- *)
\* (1, 0, 0).applyQuaternion(group.quaternion).normalize(), for a group
\* turned by quatY about the y axis
SunDirectionOf(p) ==
    <<MathCos(p.quatY), Zero, RSub(Zero, MathSin(p.quatY))>>

\* the name TextureLoader gives the clouds' texture
CloudMapName == ""

\* OrbitStep with the frame time left out: a fixed step per frame
OrbitStepPerFrame(m, delta) == RMul(OrbitRate, m)

OrbitStep(m, delta) == RMul(RMul(OrbitRate, m), delta)

\* SpinStep with the frame time left out: a fixed turn per frame
SpinStepPerFrame(rate, m, delta) == RMul(rate, m)

SpinStep(rate, m, delta) == RMul(RMul(rate, m), delta)

AdvanceMoon(moon, m, delta) ==
    LET angle == RAdd(moon.angle, SpinStep(moon.rotationSpeed, m, delta))
    IN  [moon EXCEPT !.angle = angle,
                     !.x = RMul(MathCos(angle), moon.orbitRadius),
                     !.z = RMul(MathSin(angle), moon.orbitRadius),
                     !.rotY = RAdd(@, SpinStep(moon.rotationSpeed, m, delta))]

PlaceX(angle, orbitRadius) == RMul(MathCos(angle), orbitRadius)

PlaceZ(angle, orbitRadius) == RMul(MathSin(angle), orbitRadius)

AdvancePlanet(p, m, delta) ==
    LET angle == RAdd(p.angle, OrbitStep(m, delta))
    IN  [p EXCEPT !.angle = angle,
                  !.x = PlaceX(angle, p.orbitRadius),
                  !.z = PlaceZ(angle, p.orbitRadius),
                  !.rotY = RAdd(@, SpinStep(p.rotationSpeed, m, delta)),
                  !.moons = [j \in 1 .. Len(p.moons) |->
                                AdvanceMoon(p.moons[j], m, delta)],
                  !.cloudsRotY =
                      IF p.clouds /\ CloudMapName = "earth_clouds.jpg"
                      THEN RAdd(@, OrbitStep(m, delta)) ELSE @]

\* the sun direction is published before the planets are moved
PublishSun(ps) ==
    [i \in 1 .. Len(ps) |->
        IF i = EarthIndex /\ ps[i].uniforms
        THEN [ps[i] EXCEPT !.sunDirection = SunDirectionOf(ps[i])]
        ELSE ps[i]]

\* clock.getDelta(): 0 on the call that starts the clock
GetDelta(elapsed) == IF clockRunning THEN elapsed ELSE Zero

\* the frame times explored, in seconds
Deltas == {Zero, Num(1), Num(6)}

Animate(elapsed) ==
    LET delta == GetDelta(elapsed)
        spawned == SpawnTest(MathRandom(rng, 1), solarFlareInterval, delta)
        published == PublishSun(planets)
    IN  /\ \/ pc = "animate"
           \/ pc = "running" /\ steps < MaxSteps
        /\ clockRunning' = TRUE
        /\ solarFlares' = animateSolarFlares(solarFlares, delta,
                              solarFlareInterval, nextObject, rng)
        /\ nextObject' = IF spawned THEN nextObject + flareCount ELSE nextObject
        /\ rng' = Advance(rng, IF spawned THEN 1 + flareCount ELSE 1)
        /\ planets' = [i \in 1 .. Len(planets) |->
                          AdvancePlanet(published[i], rotationSpeed, delta)]
        /\ starField' = [starField EXCEPT
                            !.rotY = RAdd(@, RMul(RMul(StarRate, rotationSpeed), delta))]
        /\ asteroidBelt' = [asteroidBelt EXCEPT
                               !.rotY = RAdd(@, RMul(RMul(BeltRate, rotationSpeed), delta))]
        /\ pc' = IF pc = "animate" THEN "settings" ELSE pc
        /\ steps' = IF pc = "animate" THEN steps ELSE steps + 1
        /\ UNCHANGED <<rotationSpeed, planetSizeScale, asteroidCount,
                       solarFlareInterval, scene, builders, selectedPlanet>>

Tick == \E elapsed \in Deltas : Animate(elapsed)

(* ------------------------------ initSettings -------------------------- *)
\* InitSettings run from inside init(), ahead of its call of animate()
InitSettingsBeforeAnimate ==
    /\ pc = "animate"
    /\ pc' = "running"
    /\ UNCHANGED <<rotationSpeed, planetSizeScale, asteroidCount,
                   solarFlareInterval, scene, starField, asteroidBelt,
                   solarFlares, builders, planets, selectedPlanet,
                   clockRunning, nextObject, steps,
                   rng>>

\* init() has resolved: the handlers are registered and the labels created
InitSettings ==
    /\ pc = "settings"
    /\ pc' = "running"
    /\ UNCHANGED <<rotationSpeed, planetSizeScale, asteroidCount,
                   solarFlareInterval, scene, starField, asteroidBelt,
                   solarFlares, builders, planets, selectedPlanet,
                   clockRunning, nextObject, steps,
                   rng>>

\* the slider values explored
SpeedInputs == {Zero, Num(2), Num(150)}
SizeInputs == {Num(2)}
CountInputs == {500, 1000}
IntervalInputs == {1}
\* the labels clicked
LabelInputs == {"Earth"}

\* a handler runs: the handlers are registered
Handling ==
    /\ pc = "running"
    /\ steps < MaxSteps
    /\ steps' = steps + 1

\* planet.rotationSpeed = (0.02 / radius) * (rotationSpeed / MAX_ROTATION_SPEED)
updateRotationSpeed(p, speed) ==
    [p EXCEPT !.rotationSpeed =
        RMul(RDiv(SpinK, p.radius), RDiv(speed, Num(MAX_ROTATION_SPEED)))]

SpeedInput(v) ==
    /\ Handling
    /\ rotationSpeed' = v
    /\ planets' = [i \in 1 .. Len(planets) |-> updateRotationSpeed(planets[i], v)]
    /\ UNCHANGED <<pc, planetSizeScale, asteroidCount, solarFlareInterval,
                   scene, starField, asteroidBelt, solarFlares, builders,
                   selectedPlanet, clockRunning, nextObject,
                   rng>>

\* updatePlanetSizes stretching the orbit along with the group
updatePlanetSizesAndOrbit(p, scale) ==
    [p EXCEPT !.scale = scale, !.orbitRadius = RMul(@, scale)]

\* planet.group.scale.setScalar(planetSizeScale)
updatePlanetSizes(p, scale) == [p EXCEPT !.scale = scale]

SizeInput(v) ==
    /\ Handling
    /\ planetSizeScale' = v
    /\ planets' = [i \in 1 .. Len(planets) |-> updatePlanetSizes(planets[i], v)]
    /\ UNCHANGED <<pc, rotationSpeed, asteroidCount, solarFlareInterval, scene,
                   starField, asteroidBelt, solarFlares, builders,
                   selectedPlanet, clockRunning, nextObject,
                   rng>>

\* scene.remove(asteroidBelt)
SceneRemove(children, node) == SelectSeq(children, LAMBDA n : n # node)

\* updateAsteroidBelt without scene.remove(asteroidBelt)
updateAsteroidBeltKeep(children, old, new) ==
    Append(children, Node("asteroidBelt", new.id))

\* scene.children after updateAsteroidBelt
updateAsteroidBelt(children, old, new) ==
    Append(SceneRemove(children, Node("asteroidBelt", old.id)),
           Node("asteroidBelt", new.id))

AsteroidCountInput(n) ==
    /\ Handling
    /\ asteroidCount' = n
    /\ asteroidBelt' = NewBelt(nextObject, n)
    /\ nextObject' = nextObject + 1 + n
    /\ scene' = updateAsteroidBelt(scene, asteroidBelt, asteroidBelt')
    /\ UNCHANGED <<pc, rotationSpeed, planetSizeScale, solarFlareInterval,
                   starField, solarFlares, builders, planets, selectedPlanet,
                   clockRunning,
                   rng>>

FlareIntervalInput(n) ==
    /\ Handling
    /\ solarFlareInterval' = n
    /\ UNCHANGED <<pc, rotationSpeed, planetSizeScale, asteroidCount, scene,
                   starField, asteroidBelt, solarFlares, builders, planets,
                   selectedPlanet, clockRunning, nextObject,
                   rng>>

\* alignPlanets putting the bodies back as they were built: the spin too
alignPlanetsAndSpin(p) ==
    [p EXCEPT !.angle = Zero, !.x = p.orbitRadius, !.z = Zero, !.rotY = Zero]

\* alignPlanets resetting the angle and leaving the group where it is
alignPlanetsAngleOnly(p) == [p EXCEPT !.angle = Zero]

alignPlanets(p) == [p EXCEPT !.angle = Zero, !.x = p.orbitRadius, !.z = Zero]

AlignPlanets ==
    /\ Handling
    /\ planets' = [i \in 1 .. Len(planets) |-> alignPlanets(planets[i])]
    /\ UNCHANGED <<pc, rotationSpeed, planetSizeScale, asteroidCount,
                   solarFlareInterval, scene, starField, asteroidBelt,
                   solarFlares, builders, selectedPlanet, clockRunning,
                   nextObject,
                   rng>>

\* planets.find(planet => planet.name === planetName)
FindPlanet(ps, planetName) ==
    IF \E i \in 1 .. Len(ps) : ps[i].name = planetName
    THEN planetName ELSE "undefined"

showPlanetInfo(planetName) ==
    /\ Handling
    /\ selectedPlanet' = FindPlanet(planets, planetName)
    /\ UNCHANGED <<pc, rotationSpeed, planetSizeScale, asteroidCount,
                   solarFlareInterval, scene, starField, asteroidBelt,
                   solarFlares, builders, planets, clockRunning, nextObject,
                   rng>>

(* ----------------------------- specification -------------------------- *)
Next ==
    \/ LoadEarthDay
    \/ LoadEarthNight
    \/ LoadSun
    \/ \E i \in Bodies : LoadResolved(i)
    \/ PlanetsResolved
    \/ Tick
    \/ InitSettings
    \/ \E v \in SpeedInputs : SpeedInput(v)
    \/ \E v \in SizeInputs : SizeInput(v)
    \/ \E n \in CountInputs : AsteroidCountInput(n)
    \/ \E n \in IntervalInputs : FlareIntervalInput(n)
    \/ AlignPlanets
    \/ \E name \in LabelInputs : showPlanetInfo(name)

Spec == Init /\ [][Next]_vars

(* ------------------- createPlanet on its own arguments ---------------- *)
\* the argument lists explored: createPlanet(size, textureFile, orbitRadius,
\* hasMoon, hasRings, hasClouds, isEarth, moons, name)
CallSizes == {R(16, 10), Num(3)}
CallMoons ==
    { <<>>,
      <<Moon(R(4, 10), Num(6))>>,
      <<Moon(R(1, 10), Num(2)), Moon(R(8, 100), R(25, 10))>>,
      <<Moon(R(28, 100), Num(5)), Moon(R(24, 100), Num(6)),
        Moon(R(41, 100), Num(7)), Moon(R(38, 100), Num(8))>> }
CallArgs ==
    { Desc(size, Num(20), hasMoon, hasRings, hasClouds, isEarth, moons, "Earth") :
        size \in CallSizes, hasMoon \in BOOLEAN, hasRings \in BOOLEAN,
        hasClouds \in BOOLEAN, isEarth \in BOOLEAN, moons \in CallMoons }

\* one call of createPlanet is pending, on arguments of CallArgs
InitCreatePlanet ==
    /\ pc = "createPlanet"
    /\ rotationSpeed = One
    /\ planetSizeScale = One
    /\ asteroidCount = 1000
    /\ solarFlareInterval = 10
    /\ scene = <<>>
    /\ starField = None
    /\ asteroidBelt = None
    /\ solarFlares = <<>>
    /\ \E d \in CallArgs :
          builders = <<[resolved |-> 0, moons |-> <<>>, done |-> FALSE,
                        result |-> None, args |-> d]>>
    /\ planets = <<>>
    /\ selectedPlanet = "null"
    /\ clockRunning = FALSE
    /\ nextObject = 0
    /\ rng \in Seeds
    /\ steps = 0

\* the moonObjects of a call on d, the generator at position g: one
\* Math.random() per moon, in the order of the loop
MoonObjectsOf(d, g) ==
    [j \in 1 .. Len(MoonsOf(d)) |-> MoonObject(MoonsOf(d)[j], MathRandom(g, j))]

\* the call runs through all its awaits to its return
CreatePlanetCall ==
    LET d == builders[1].args
        n == Len(MoonsOf(d))
    IN  /\ pc = "createPlanet"
        /\ ~builders[1].done
        /\ builders' = [builders EXCEPT ![1] =
              [@ EXCEPT !.resolved = Len(Awaits(d)),
                        !.moons = MoonObjectsOf(d, rng),
                        !.done = TRUE,
                        !.result = PlanetObject(d, MoonObjectsOf(d, rng),
                                                MathRandom(rng, n + 1))]]
        /\ scene' = Append(scene, Node("planet", 1))
        /\ rng' = Advance(rng, n + 1)
        /\ UNCHANGED <<pc, rotationSpeed, planetSizeScale, asteroidCount,
                       solarFlareInterval, starField, asteroidBelt,
                       solarFlares, planets, selectedPlanet, clockRunning,
                       nextObject, steps>>

NextCreatePlanet == CreatePlanetCall

SpecCreatePlanet == InitCreatePlanet /\ [][NextCreatePlanet]_vars

(* ======================= the claims, C1 to C10 ======================== *)
Built == pc \in {"animate", "settings", "running"}

Indices == 1 .. Len(planets)

(* C1: a frame with delta D and multiplier m moves every body's orbit     *)
(* angle by 0.005 * m * D, whatever D is: no clamping, one rate for all.  *)
C1_OrbitAngleLaw ==
    [][\A e \in Deltas : Animate(e) =>
          \A i \in Indices :
              planets'[i].angle =
                  RAdd(planets[i].angle,
                       RMul(R(5, 1000), RMul(rotationSpeed, GetDelta(e))))]_vars

\* a frame of 6 seconds at multiplier 150 has moved a body by 4.5 radians
C1_Witness ==
    /\ pc = "running"
    /\ rotationSpeed = Num(150)
    /\ \E i \in Indices :
          planets[i].angle = RAdd(RMul(Hi, TwoPi), R(45, 10))

(* C2: once a frame has run, every body's group is at                      *)
(* (cos(angle) * orbitRadius, sin(angle) * orbitRadius), and every         *)
(* satellite likewise with its own angle and radius, also after the        *)
(* settings events that follow.                                            *)
C2_PositionReconciled ==
    clockRunning =>
        \A i \in Indices :
            /\ planets[i].x = RMul(MathCos(planets[i].angle), planets[i].orbitRadius)
            /\ planets[i].z = RMul(MathSin(planets[i].angle), planets[i].orbitRadius)
            /\ \A j \in 1 .. Len(planets[i].moons) :
                  LET moon == planets[i].moons[j]
                  IN  /\ moon.x = RMul(MathCos(moon.angle), moon.orbitRadius)
                      /\ moon.z = RMul(MathSin(moon.angle), moon.orbitRadius)

\* the planets were aligned after a frame had moved them off the x axis
C2_Witness ==
    /\ pc = "running"
    /\ steps = 2
    /\ \A i \in Indices : planets[i].angle = Zero /\ planets[i].x = planets[i].orbitRadius
    /\ \E i \in Indices : planets[i].rotY # Zero
    /\ \E i \in Indices : \E j \in 1 .. Len(planets[i].moons) :
          planets[i].moons[j].z # Zero

\* angle, spin and position of a body and of its satellites
Pose(p) ==
    <<p.angle, p.rotY, p.x, p.z,
      [j \in 1 .. Len(p.moons) |->
          <<p.moons[j].angle, p.moons[j].rotY, p.moons[j].x, p.moons[j].z>>]>>

(* C3 as stated: a frame with delta 0 in any reachable state, the state   *)
(* right after construction included, leaves every angle, spin and        *)
(* position unchanged.                                                    *)
C3_ZeroDeltaAnyState ==
    [][\A e \in Deltas : (Animate(e) /\ GetDelta(e) = Zero) =>
          \A i \in Indices : Pose(planets'[i]) = Pose(planets[i])]_vars

(* C3 amended: a frame with delta 0 in a state in which a frame has       *)
(* already run leaves every angle, spin and position unchanged.           *)
C3_ZeroDeltaAfterFirstFrame ==
    [][\A e \in Deltas : (Animate(e) /\ clockRunning /\ GetDelta(e) = Zero) =>
          \A i \in Indices : Pose(planets'[i]) = Pose(planets[i])]_vars

\* only a frame with delta 0 leads from the state in which init() resolved
\* to this one: no setting has changed and nothing has turned
C3_Witness ==
    /\ pc = "running"
    /\ steps = 1
    /\ rotationSpeed = One /\ planetSizeScale = One /\ solarFlareInterval = 10
    /\ selectedPlanet = "null"
    /\ asteroidBelt.id = 0
    /\ starField.rotY = Zero
    /\ \E i \in Indices : planets[i].angle # Zero /\ planets[i].z # Zero

(* C4 as stated: every frame with delta D and multiplier m turns a body   *)
(* about its axis by (0.02 / size) * m * D, size its construction-time    *)
(* size, also after rotation-speed changes.                               *)
C4_SpinLaw ==
    [][\A e \in Deltas : Animate(e) =>
          \A i \in Indices :
              planets'[i].rotY =
                  RAdd(planets[i].rotY,
                       RMul(RDiv(R(2, 100), Descriptors[i].size),
                            RMul(rotationSpeed, GetDelta(e))))]_vars

(* C5: at the end of every frame no active flare has a lifespan at or     *)
(* past its maxLifespan: a flare whose lifespan gets there during a frame *)
(* is removed in that frame, whatever other flares are active.            *)
C5_NoExpiredFlare ==
    \A k \in 1 .. Len(solarFlares) :
        RLt(solarFlares[k].lifespan, solarFlares[k].maxLifespan)

\* a flare has been removed and two older ones are still active
C5_Witness ==
    /\ Len(solarFlares) = 2
    /\ \A k \in 1 .. 2 : solarFlares[k].id <= 1000 + flareCount
    /\ \E k \in 1 .. 2 : solarFlares[k].lifespan = Num(6)

(* C6 as stated: a frame with delta D adds exactly D to the lifespan of   *)
(* every flare that is active when it starts and still active when it     *)
(* ends, also in frames in which other flares are removed.                *)
C6_FlareAgesEveryFrame ==
    [][\A e \in Deltas : Animate(e) =>
          \A k \in 1 .. Len(solarFlares) : \A n \in 1 .. Len(solarFlares') :
              solarFlares'[n].id = solarFlares[k].id =>
                  solarFlares'[n].lifespan =
                      RAdd(solarFlares[k].lifespan, GetDelta(e))]_vars

FlareIds(children) == {children[k].id : k \in 1 .. Len(children)}

(* C7: a frame makes one spawn draw u, which succeeds iff                  *)
(* u < delta / solarFlareInterval; on success exactly one flare, the      *)
(* first of a new group of three and of lifespan 0, is added, on failure  *)
(* none is, so the active set gains at most one flare per frame.          *)
C7_OneSpawnPerFrame ==
    [][\A e \in Deltas : Animate(e) =>
          LET u == MathRandom(rng, 1)
              success == RLt(u, RDiv(GetDelta(e), Num(solarFlareInterval)))
              added == FlareIds(solarFlares') \ FlareIds(solarFlares)
              newest == solarFlares'[Len(solarFlares')]
          IN  /\ success => /\ added = {nextObject}
                            /\ newest.id = nextObject
                            /\ newest.lifespan = Zero
                            /\ rng' = Advance(rng, 1 + flareCount)
              /\ ~success => added = {} /\ rng' = Advance(rng, 1)
              /\ Len(solarFlares') <= Len(solarFlares) + 1]_vars

\* a spawn has succeeded in a frame in which no flare was removed
C7_Witness ==
    /\ Len(solarFlares) = flareCount + 1
    /\ solarFlares[flareCount + 1].lifespan = Zero
    /\ solarFlares[1].lifespan # Zero

AsteroidFields == SelectSeq(scene, LAMBDA n : n.kind = "asteroidBelt")

\* one field in the scene, the current one, of asteroidCount asteroids
C8_OneField ==
    asteroidBelt.kind = "group" =>
        /\ AsteroidFields = <<Node("asteroidBelt", asteroidBelt.id)>>
        /\ asteroidBelt.count = asteroidCount
        /\ Cardinality(Asteroids(asteroidBelt)) = asteroidCount

\* the asteroids of a rebuilt field are objects made by the rebuild
C8_AllNew ==
    (asteroidBelt.kind = "group" /\ asteroidBelt'.id # asteroidBelt.id) =>
        /\ Asteroids(asteroidBelt') \cap Asteroids(asteroidBelt) = {}
        /\ \A a \in Asteroids(asteroidBelt') : nextObject <= a /\ a < nextObject'

(* C8: after any asteroid-count changes and frames the scene holds exactly *)
(* one asteroid field, of as many asteroids as the count set last, all of  *)
(* them made by the last rebuild; the earlier field is out of the scene.   *)
C8_FieldRebuilt == []C8_OneField /\ [][C8_AllNew]_vars

\* a field of 1000 built after a field of 500
C8_Witness ==
    /\ pc = "running"
    /\ asteroidBelt.count = 1000
    /\ asteroidBelt.id >= (1 + 1000) + flareCount + (1 + 500)

\* the satellite specs of all the createPlanet calls
AllMoonSpecs ==
    UNION {{MoonsOf(Descriptors[i])[j] : j \in 1 .. Len(MoonsOf(Descriptors[i]))} :
              i \in 1 .. Len(Descriptors)}

\* every satellite's rate is 0.02 / size, the smaller the faster
C9_InverseSize ==
    /\ \A i \in Bodies :
          LET made == IF Built THEN planets[i].moons ELSE builders[i].moons
          IN  \A j \in 1 .. Len(made) :
                  made[j].rotationSpeed =
                      RDiv(R(2, 100), MoonsOf(Descriptors[i])[j].size)
    /\ \A a \in AllMoonSpecs, b \in AllMoonSpecs :
          RLt(a.size, b.size) =>
              RLt(MoonObject(b, Zero).rotationSpeed, MoonObject(a, Zero).rotationSpeed)

\* a frame moves a satellite along its orbit and about its axis by
\* rate * rotationSpeed * delta
C9_MoonStep ==
    \A e \in Deltas : Animate(e) =>
        \A i \in Indices : \A j \in 1 .. Len(planets[i].moons) :
            LET moon == planets[i].moons[j]
                step == RMul(moon.rotationSpeed, RMul(rotationSpeed, GetDelta(e)))
            IN  /\ planets'[i].moons[j].angle = RAdd(moon.angle, step)
                /\ planets'[i].moons[j].rotY = RAdd(moon.rotY, step)

(* C9: in every state a satellite's spin rate is 0.02 / satelliteSize (no *)
(* frame and no event changes it), so the strictly smaller of two         *)
(* satellites has the strictly greater rate, and a frame advances the     *)
(* satellite's orbit angle and spin by rate * rotationSpeed * delta.      *)
C9_SatelliteRate == []C9_InverseSize /\ [][C9_MoonStep]_vars

\* a frame at multiplier 150 has turned Earth's moon after a speed change
C9_Witness ==
    /\ pc = "running"
    /\ rotationSpeed = Num(150)
    /\ planets[EarthIndex].moons[1].rotY # Zero

(* C10: whatever the order in which the loads complete, planets has the   *)
(* order of the descriptors: planets[i] is built from descriptor i, and   *)
(* the body with day/night shading is at index 2.                         *)
C10_DescriptorOrder ==
    Built =>
        /\ Len(planets) = Cardinality(Bodies)
        /\ \A i \in Indices :
              /\ planets[i].name = Descriptors[i].name
              /\ planets[i].orbitRadius = Descriptors[i].orbitRadius
              /\ planets[i].uniforms = (i = EarthIndex)

\* the createPlanet calls returned in the reverse of the array's order
C10_Witness ==
    /\ Built
    /\ [k \in 1 .. Len(Completed) |-> Completed[k].id] = <<3, 2, 1>>

(* ======================= the claims, C11 to C20 ======================= *)
(* C11 as stated: whatever the order in which the texture loads complete, *)
(* the body groups are added to the scene in the order of the descriptor  *)
(* list: body i before body j whenever i < j.                             *)
C11_SceneInDescriptorOrder ==
    \A a \in 1 .. Len(Completed) : \A b \in 1 .. Len(Completed) :
        a < b => Completed[a].id < Completed[b].id

\* the number of loads createPlanet awaits for a descriptor
LoadsOf(d) ==
    (IF d.isEarth THEN 0 ELSE 1) + Len(MoonsOf(d))
    + (IF d.hasRings THEN 1 ELSE 0) + (IF d.hasClouds THEN 1 ELSE 0)

\* the bodies whose group is in the scene
InScene == {Completed[k].id : k \in 1 .. Len(Completed)}

(* C12: no frame runs before construction is complete: when the first     *)
(* frame executes, every body has all its loads resolved, its satellites  *)
(* attached and its group in the scene; and a group is in the scene only  *)
(* when all the loads of its body have resolved.                          *)
C12_BuiltBeforeFirstFrame ==
    /\ (pc = "animate" \/ clockRunning) =>
          /\ Len(planets) = Cardinality(Bodies)
          /\ \A i \in Bodies :
                /\ builders[i].done
                /\ builders[i].resolved = LoadsOf(Descriptors[i])
                /\ Len(planets[i].moons) = Len(MoonsOf(Descriptors[i]))
                /\ planets[i].clouds = Descriptors[i].hasClouds
                /\ i \in InScene
    /\ \A i \in InScene :
          /\ builders[i].resolved = LoadsOf(Descriptors[i])
          /\ Len(builders[i].moons) = Len(MoonsOf(Descriptors[i]))

\* the first frame is about to run
C12_Witness ==
    /\ pc = "animate"
    /\ ~clockRunning
    /\ InScene = Bodies
    /\ builders[EarthIndex].resolved = 2

(* C13 as stated: in every frame the sun direction of the body with       *)
(* day/night shading is computed after the body's angle and position have *)
(* been updated, by turning (1, 0, 0) by the body's current orbital       *)
(* orientation; so the published direction differs between two frames     *)
(* whenever the body's orbit angle differs (mod 2 pi) between them.       *)
C13_SunDirectionFollowsOrbit ==
    [][\A e \in Deltas : (Animate(e) /\ clockRunning) =>
          LET before == planets[EarthIndex]
              after == planets'[EarthIndex]
          IN  Centi(after.angle) # Centi(before.angle) =>
                  after.sunDirection # before.sunDirection]_vars

(* C14 as stated: rotationSpeed starts at 1 and, after any sequence of    *)
(* speed-change events carrying arbitrary numeric values, lies in         *)
(* [0, MAX_ROTATION_SPEED] in every reachable state.                      *)
C14_SpeedInDomain ==
    /\ pc = "earthDay" => rotationSpeed = One
    /\ RLe(Zero, rotationSpeed)
    /\ RLe(rotationSpeed, Num(MAX_ROTATION_SPEED))

(* C15: a size event changes planetSizeScale and the scale of every       *)
(* body's group and nothing else: orbit radius, angle, position and spin  *)
(* rate of every body and satellite and the other global parameters stay  *)
(* as they are.                                                           *)
C15_SizeEventFrame ==
    [][\A v \in SizeInputs : SizeInput(v) =>
          /\ planetSizeScale' = v
          /\ Len(planets') = Len(planets)
          /\ \A i \in Indices : planets'[i] = [planets[i] EXCEPT !.scale = v]
          /\ UNCHANGED <<rotationSpeed, asteroidCount, solarFlareInterval,
                         selectedPlanet, scene, starField, asteroidBelt,
                         solarFlares>>]_vars

\* the groups were scaled after a frame had turned the scene
C15_Witness ==
    /\ pc = "running"
    /\ planetSizeScale = Num(2)
    /\ \A i \in Indices : planets[i].scale = Num(2)
    /\ starField.rotY # Zero
    /\ planets[EarthIndex].moons[1].rotY # Zero

(* C16: a body built from a non-empty satellite list has one satellite    *)
(* per entry, in the list's order, each with the entry's orbit radius and *)
(* the rate 0.02 / size, and no default satellite even if hasMoon is set; *)
(* from an empty list it has exactly one satellite (size 0.2 * size,      *)
(* orbit radius 2 * size) if hasMoon is set, and none if it is not.       *)
C16_SatelliteCount ==
    \A i \in Bodies : builders[i].done =>
        LET d == builders[i].args
            made == builders[i].result.moons
        IN  /\ Len(d.moons) > 0 =>
                /\ Len(made) = Len(d.moons)
                /\ \A j \in 1 .. Len(d.moons) :
                      /\ made[j].orbitRadius = d.moons[j].orbitRadius
                      /\ made[j].radius = d.moons[j].size
                      /\ made[j].rotationSpeed = RDiv(R(2, 100), d.moons[j].size)
            /\ (Len(d.moons) = 0 /\ d.hasMoon) =>
                /\ Len(made) = 1
                /\ made[1].radius = RMul(R(2, 10), d.size)
                /\ made[1].orbitRadius = RMul(Num(2), d.size)
                /\ made[1].rotationSpeed = RDiv(R(2, 100), RMul(R(2, 10), d.size))
            /\ (Len(d.moons) = 0 /\ ~d.hasMoon) => Len(made) = 0

\* a body built from a list of two moons with hasMoon set
C16_Witness ==
    /\ builders[1].done
    /\ builders[1].args.hasMoon
    /\ Len(builders[1].args.moons) = 2
    /\ Len(builders[1].result.moons) = 2

\* the flares createSolarSystem starts with: flareCount of them, until the
\* first frame whose delta is not 0
C17_InitialFlares ==
    pc \in {"planets", "animate", "settings"} => Len(solarFlares) = flareCount

\* a frame whose spawn draw succeeds and in which no lifespan runs out adds
\* one flare, however many are active
C17_SpawnWhateverTheCount ==
    \A e \in Deltas :
        ( /\ Animate(e)
          /\ RLt(MathRandom(rng, 1), RDiv(GetDelta(e), Num(solarFlareInterval)))
          /\ \A k \in 1 .. Len(solarFlares) :
                RLt(RAdd(solarFlares[k].lifespan, GetDelta(e)),
                    solarFlares[k].maxLifespan) )
        => Len(solarFlares') = Len(solarFlares) + 1

(* C17: the number of active flares has no cap: the set starts with       *)
(* exactly 3 flares, and every frame whose spawn draw succeeds, with a    *)
(* delta short of the lifespans, adds one flare whatever the number       *)
(* already active, so that frames can take the number past any bound.     *)
C17_NoFlareCap == []C17_InitialFlares /\ [][C17_SpawnWhateverTheCount]_vars

\* two frames in a row have each added a flare to the initial three
C17_Witness ==
    /\ Len(solarFlares) = flareCount + 2
    /\ \A k \in 1 .. Len(solarFlares) : solarFlares[k].lifespan # Num(6)

\* an align event puts every body at angle 0 and (orbitRadius, 0, 0) and
\* changes nothing else
C18_AlignStep ==
    AlignPlanets =>
        /\ Len(planets') = Len(planets)
        /\ \A i \in Indices :
              planets'[i] = [planets[i] EXCEPT !.angle = Zero,
                                               !.x = planets[i].orbitRadius,
                                               !.z = Zero]
        /\ UNCHANGED <<rotationSpeed, planetSizeScale, asteroidCount,
                       solarFlareInterval, selectedPlanet, scene, starField,
                       asteroidBelt, solarFlares>>

\* bodies with pairwise equal orbit angles keep pairwise equal orbit angles
C18_StayAligned ==
    (Built /\ \A i \in Indices : \A j \in Indices :
                 planets[i].angle = planets[j].angle)
    => \A i \in Indices : \A j \in Indices : planets'[i].angle = planets'[j].angle

(* C18: after an align event every body has orbit angle 0 and position    *)
(* (orbitRadius, 0, 0), and from then on, under frames and speed, size    *)
(* and asteroid-count changes, all bodies keep pairwise equal angles; the *)
(* align event leaves satellite angles and positions, body spins and all  *)
(* global parameters unchanged.                                           *)
C18_AlignKeepsBodiesTogether == [][C18_AlignStep /\ C18_StayAligned]_vars

\* bodies built at different angles were aligned, and a frame of 6 seconds
\* has then moved them all to the same angle
C18_Witness ==
    /\ pc = "running"
    /\ \E i \in Indices : builders[i].result.angle # builders[1].result.angle
    /\ \A i \in Indices : planets[i].angle = R(3, 100)
    /\ planets[1].x # planets[1].orbitRadius

\* a step of one of the handlers initSettings registers
HandlerStep ==
    \/ \E v \in SpeedInputs : SpeedInput(v)
    \/ \E v \in SizeInputs : SizeInput(v)
    \/ \E n \in CountInputs : AsteroidCountInput(n)
    \/ \E n \in IntervalInputs : FlareIntervalInput(n)
    \/ AlignPlanets
    \/ \E name \in LabelInputs : showPlanetInfo(name)

\* init() has run to its end: createSolarSystem has returned (the flares are
\* made between the asteroid belt and the planets), planets, star field and
\* asteroid belt exist and the first frame has run
InitDone ==
    /\ pc \in {"settings", "running"}
    /\ clockRunning
    /\ Len(planets) = Cardinality(Bodies)
    /\ asteroidBelt.kind = "group"
    /\ starField.kind = "points"

(* C19: no handler (speed, size, asteroid count, flare interval, align,   *)
(* label click) runs before initialization is complete, that is before    *)
(* planets, the asteroid belt and the flares exist; the handlers are      *)
(* registered only once init() has resolved, after the first frame.       *)
C19_HandlersAfterInit ==
    [][(HandlerStep \/ InitSettings) => InitDone]_vars

\* a label has been clicked
C19_Witness ==
    /\ pc = "running"
    /\ steps = 1
    /\ selectedPlanet = "Earth"

\* the active flares with their lifespans, in the order of the set
FlareAges(children) ==
    [k \in 1 .. Len(children) |-> <<children[k].id, children[k].lifespan>>]

(* C20: a frame with delta 0 and a positive spawn interval leaves the     *)
(* flare set as it is: no flare is removed, none is spawned, and every    *)
(* flare's lifespan is unchanged.                                         *)
C20_ZeroDeltaFlares ==
    [][\A e \in Deltas :
          (Animate(e) /\ GetDelta(e) = Zero /\ solarFlareInterval > 0) =>
              FlareAges(solarFlares') = FlareAges(solarFlares)]_vars

\* a frame of 1 second and a frame with delta 0 have run, in either order,
\* and nothing else has
C20_Witness ==
    /\ pc = "running"
    /\ steps = 2
    /\ rotationSpeed = One /\ planetSizeScale = One /\ solarFlareInterval = 10
    /\ selectedPlanet = "null"
    /\ asteroidBelt.id = 0
    /\ starField.rotY = R(1, 10000)
    /\ \E i \in Indices : RLt(One, planets[i].angle)
    /\ \E k \in 1 .. Len(solarFlares) : solarFlares[k].lifespan = One

(* ============================ the claim C21 =========================== *)
\* a frame turns the asteroid belt by 0.0005 * rotationSpeed * delta and
\* leaves its asteroids and their number as they are
C21_FrameSpinsBelt ==
    \A e \in Deltas : Animate(e) =>
        /\ asteroidBelt' =
              [asteroidBelt EXCEPT
                  !.rotY = RAdd(asteroidBelt.rotY,
                                RMul(R(5, 10000), RMul(rotationSpeed, GetDelta(e))))]
        /\ Asteroids(asteroidBelt') = Asteroids(asteroidBelt)
        /\ asteroidCount' = asteroidCount

\* an asteroid-count change starts the new belt unrotated
C21_RebuildResetsSpin ==
    \A n \in CountInputs : AsteroidCountInput(n) =>
        /\ asteroidBelt'.rotY = Zero
        /\ asteroidBelt'.count = n

(* C21: every frame advances the asteroid belt's rotation by              *)
(* 0.0005 * rotationSpeed * delta and changes neither the count nor the   *)
(* asteroids; every asteroid-count change rebuilds the belt with rotation *)
(* 0, whatever rotation the belt before it had.                           *)
C21_BeltSpin == [][C21_FrameSpinsBelt /\ C21_RebuildResetsSpin]_vars

\* the belt was rebuilt after a frame had turned the belt before it
C21_Witness ==
    /\ pc = "running"
    /\ steps = 2
    /\ asteroidBelt.id > 0
    /\ asteroidBelt.rotY = Zero
    /\ starField.rotY # Zero

====
